---- MODULE Spec2Model ----
(***************************************************************************)
(* Model of examples/gpu_usage.c: the GPU usage monitor built on the Intel *)
(* Metrics Discovery API.  The program state is main's position, its       *)
(* global variables, and the state of the vendor objects the globals refer *)
(* to.  Vendor calls are the environment: their results are chosen         *)
(* nondeterministically where the code tests them.                         *)
(***************************************************************************)
EXTENDS Integers, Sequences, FiniteSets, TLC

(***************************************************************************)
(* Bounds of the model.                                                    *)
(***************************************************************************)
MaxArgs == 2
MaxAdapters == 2
MaxGroups == 2
MaxSets == 2
MaxCount == 3

(***************************************************************************)
(* Program constants.                                                      *)
(***************************************************************************)
NULL == 0
IntelVendorId == 32902
LibraryPathCount == 4
RenderPlaceholder == 25
BlitterPlaceholder == 5
VideoPlaceholder == 10
FullScale == 100

SeqsUpTo(S, n) == UNION {[1..k -> S] : k \in 0..n}

Sat(n) == IF n < MaxCount THEN n + 1 ELSE MaxCount

(***************************************************************************)
(* Strings are sequences of characters, so that strstr is a real substring *)
(* search.                                                                 *)
(***************************************************************************)
kw_Render == <<"R","e","n","d","e","r">>
kw_render == <<"r","e","n","d","e","r">>
kw_RENDER == <<"R","E","N","D","E","R">>
kw_Blitter == <<"B","l","i","t","t","e","r">>
kw_blitter == <<"b","l","i","t","t","e","r">>
kw_BLITTER == <<"B","L","I","T","T","E","R">>
kw_Video == <<"V","i","d","e","o">>
kw_video == <<"v","i","d","e","o">>
kw_VIDEO == <<"V","I","D","E","O">>
kw_Busy == <<"B","u","s","y">>
kw_busy == <<"b","u","s","y">>
kw_BUSY == <<"B","U","S","Y">>
kw_Util == <<"U","t","i","l">>
kw_util == <<"u","t","i","l">>
kw_UTIL == <<"U","T","I","L">>

name_RenderBusy == <<"R","e","n","d","e","r","B","u","s","y">>
name_BlitterBusy == <<"B","l","i","t","t","e","r","B","u","s","y">>
name_VideoBusy == <<"V","i","d","e","o","B","u","s","y">>
name_render_util == <<"r","e","n","d","e","r","_","u","t","i","l">>
name_VIDEO_BUSY == <<"V","I","D","E","O","_","B","U","S","Y">>
name_GpuTime == <<"G","p","u","T","i","m","e">>
name_RenderBasic == <<"R","e","n","d","e","r","B","a","s","i","c">>
name_GpuBusy == <<"G","p","u","B","u","s","y">>
name_rEnderBusy == <<"r","E","n","d","e","r","B","u","s","y">>
name_BLITTERUtil == <<"B","L","I","T","T","E","R","U","t","i","l">>

\* strstr(name, kw) != NULL
strstr(name, kw) ==
    \E i \in 1..(Len(name) - Len(kw) + 1) : SubSeq(name, i, i + Len(kw) - 1) = kw

\* The activity test repeated inside each engine branch of the finder.
HasActivityKeyword(name) ==
    \/ strstr(name, kw_Busy) \/ strstr(name, kw_busy) \/ strstr(name, kw_BUSY)
    \/ strstr(name, kw_Util) \/ strstr(name, kw_util) \/ strstr(name, kw_UTIL)

IsRenderMetric(name) ==
    /\ (strstr(name, kw_Render) \/ strstr(name, kw_render) \/ strstr(name, kw_RENDER))
    /\ HasActivityKeyword(name)

IsBlitterMetric(name) ==
    /\ (strstr(name, kw_Blitter) \/ strstr(name, kw_blitter) \/ strstr(name, kw_BLITTER))
    /\ HasActivityKeyword(name)

IsVideoMetric(name) ==
    /\ (strstr(name, kw_Video) \/ strstr(name, kw_video) \/ strstr(name, kw_VIDEO))
    /\ HasActivityKeyword(name)

(***************************************************************************)
(* The vendor's descriptor tree.  A metric is [valid, name]: valid = FALSE *)
(* stands for a NULL metric, NULL params or a NULL SymbolName, all skipped *)
(* by the code alike.  A metric set is [valid, metrics] and a group is     *)
(* [valid, sets], valid = FALSE standing for a NULL object or NULL params. *)
(* A device is [params, groups], params = FALSE a NULL device params.      *)
(***************************************************************************)
Metric(n) == [valid |-> TRUE, name |-> n]
NullMetric == [valid |-> FALSE, name |-> <<>>]
MetricSet(ms) == [valid |-> TRUE, metrics |-> ms]
NullSet == [valid |-> FALSE, metrics |-> <<>>]
Group(ss) == [valid |-> TRUE, sets |-> ss]
NullGroup == [valid |-> FALSE, sets |-> <<>>]
Device(gs) == [params |-> TRUE, groups |-> gs]
NoDevice == [params |-> FALSE, groups |-> <<>>]

\* The metric loop of the finder: the three flags after metrics i..end.
RECURSIVE ScanMetrics(_, _, _)
ScanMetrics(metrics, i, has) ==
    IF i > Len(metrics) THEN has
    ELSE LET m == metrics[i]
         IN  IF ~m.valid THEN ScanMetrics(metrics, i + 1, has)
             ELSE ScanMetrics(metrics, i + 1,
                     [hasRender  |-> has.hasRender \/ IsRenderMetric(m.name),
                      hasBlitter |-> has.hasBlitter \/ IsBlitterMetric(m.name),
                      hasVideo   |-> has.hasVideo \/ IsVideoMetric(m.name)])

NoFlags == [hasRender |-> FALSE, hasBlitter |-> FALSE, hasVideo |-> FALSE]

\* Faulty variant: the video flag is left out of the selection test.
SetSelected_NoVideo(has) == has.hasRender \/ has.hasBlitter

\* "If we found utilization metrics, use this metric set"
SetSelected(has) == has.hasRender \/ has.hasBlitter \/ has.hasVideo

\* The metric-set loop of one group, from set index setIdx (0-based as in the
\* code).  inspected lists the <<group, set>> indices GetMetricSet was called on.
RECURSIVE ScanSets(_, _, _, _)
ScanSets(group, groupIdx, setIdx, inspected) ==
    IF setIdx >= Len(group.sets)
    THEN [found |-> FALSE, group |-> NULL, set |-> NULL, inspected |-> inspected]
    ELSE LET metricSet == group.sets[setIdx + 1]
             seen == Append(inspected, <<groupIdx, setIdx>>)
         IN  IF ~metricSet.valid THEN ScanSets(group, groupIdx, setIdx + 1, seen)
             ELSE IF SetSelected(ScanMetrics(metricSet.metrics, 1, NoFlags))
                  THEN [found |-> TRUE, group |-> groupIdx + 1, set |-> setIdx + 1,
                        inspected |-> seen]
                  ELSE ScanSets(group, groupIdx, setIdx + 1, seen)

\* The concurrent-group loop, from group index groupIdx.
RECURSIVE ScanGroups(_, _, _)
ScanGroups(dev, groupIdx, inspected) ==
    IF groupIdx >= Len(dev.groups)
    THEN [found |-> FALSE, group |-> NULL, set |-> NULL, inspected |-> inspected]
    ELSE LET group == dev.groups[groupIdx + 1]
         IN  IF ~group.valid THEN ScanGroups(dev, groupIdx + 1, inspected)
             ELSE LET r == ScanSets(group, groupIdx, 0, inspected)
                  IN  IF r.found THEN r
                      ELSE ScanGroups(dev, groupIdx + 1, r.inspected)

\* FindGpuUtilizationMetricSet as a function of g_metricsDevice and the tree.
\* group and set are handles: index + 1, NULL when nothing was selected.
FindWalk(metricsDevice, dev) ==
    IF metricsDevice = NULL \/ ~dev.params
    THEN [found |-> FALSE, group |-> NULL, set |-> NULL, inspected |-> <<>>]
    ELSE ScanGroups(dev, 0, <<>>)

(***************************************************************************)
(* GpuUtilization.  A float is modelled as an exact rational [n, d], d > 0 *)
(* (the rounding of single precision is not modelled).                     *)
(***************************************************************************)
Rat(k) == [n |-> k, d |-> 1]
RatAdd(a, b) == [n |-> a.n * b.d + b.n * a.d, d |-> a.d * b.d]
RatMul(a, b) == [n |-> a.n * b.n, d |-> a.d * b.d]
RatDiv(a, b) == [n |-> a.n * b.d, d |-> a.d * b.n]
RatGt(a, b) == a.n * b.d > b.n * a.d
RatEq(a, b) == a.n * b.d = b.n * a.d

\* memset(util, 0, sizeof(GpuUtilization))
ZeroUtil ==
    [render |-> Rat(0), blitter |-> Rat(0), video |-> Rat(0), enhance |-> Rat(0),
     total |-> Rat(0)]

\* Faulty variant: the channels are scaled but total keeps the raw sum.
Normalize_KeepsTotal(u) ==
    LET total == RatAdd(RatAdd(RatAdd(u.render, u.blitter), u.video), u.enhance)
        scale == RatDiv(Rat(FullScale), total)
    IN  IF RatGt(total, Rat(FullScale))
        THEN [render  |-> RatMul(u.render, scale),
              blitter |-> RatMul(u.blitter, scale),
              video   |-> RatMul(u.video, scale),
              enhance |-> RatMul(u.enhance, scale),
              total   |-> total]
        ELSE [u EXCEPT !.total = total]

\* "Calculate total and normalize if needed"
Normalize(u) ==
    LET total == RatAdd(RatAdd(RatAdd(u.render, u.blitter), u.video), u.enhance)
        scale == RatDiv(Rat(FullScale), total)
    IN  IF RatGt(total, Rat(FullScale))
        THEN [render  |-> RatMul(u.render, scale),
              blitter |-> RatMul(u.blitter, scale),
              video   |-> RatMul(u.video, scale),
              enhance |-> RatMul(u.enhance, scale),
              total   |-> Rat(FullScale)]
        ELSE [u EXCEPT !.total = total]

\* printf("%.1f"): a non-negative value in tenths, rounded to nearest.
Tenths(a) == (20 * a.n + a.d) \div (2 * a.d)

\* The line DisplayGpuUtilization prints, each value in tenths of a percent.
DisplayGpuUtilization(u) ==
    [render |-> Tenths(u.render), blitter |-> Tenths(u.blitter),
     video |-> Tenths(u.video), enhance |-> Tenths(u.enhance),
     total |-> Tenths(u.total)]

NoLine == [render |-> 0, blitter |-> 0, video |-> 0, enhance |-> 0, total |-> 0]

\* The metric loop of ReadGpuUtilization: the placeholder assigned per class.
RECURSIVE ReadMetrics(_, _, _)
ReadMetrics(metrics, i, u) ==
    IF i > Len(metrics) THEN u
    ELSE LET m == metrics[i]
         IN  IF ~m.valid THEN ReadMetrics(metrics, i + 1, u)
             ELSE IF strstr(m.name, kw_Render) /\ strstr(m.name, kw_Busy)
                  THEN ReadMetrics(metrics, i + 1,
                                   [u EXCEPT !.render = Rat(RenderPlaceholder)])
             ELSE IF strstr(m.name, kw_Blitter) /\ strstr(m.name, kw_Busy)
                  THEN ReadMetrics(metrics, i + 1,
                                   [u EXCEPT !.blitter = Rat(BlitterPlaceholder)])
             ELSE IF strstr(m.name, kw_Video) /\ strstr(m.name, kw_Busy)
                  THEN ReadMetrics(metrics, i + 1,
                                   [u EXCEPT !.video = Rat(VideoPlaceholder)])
             ELSE ReadMetrics(metrics, i + 1, u)

\* Faulty variant: CC_ALREADY_INITIALIZED is taken for a failure.
ActivateAccepted_OnlyOK(result) == result = "CC_OK"

\* result != CC_OK && result != CC_ALREADY_INITIALIZED is the failure test
ActivateAccepted(result) == result = "CC_OK" \/ result = "CC_ALREADY_INITIALIZED"

CompletionCodes == {"CC_OK", "CC_ALREADY_INITIALIZED", "CC_ERROR_GENERAL"}

(***************************************************************************)
(* The vendor objects behind the handles.  misuse records a call made on   *)
(* an object outside its lifetime: the library must be loaded, the adapter *)
(* group (which owns the adapters) open, the metrics device (which owns    *)
(* the groups, metric sets and metrics) open.                              *)
(***************************************************************************)
NoVendor ==
    [libLoaded |-> FALSE, groupOpen |-> FALSE, deviceOpen |-> FALSE,
     setActive |-> FALSE, misuse |-> FALSE]

LibraryLive(v) == v.libLoaded
GroupLive(v) == v.libLoaded /\ v.groupOpen
DeviceLive(v) == v.libLoaded /\ v.groupOpen /\ v.deviceOpen

\* A call that needs `live`.
Use(v, live) == [v EXCEPT !.misuse = @ \/ ~live]

(***************************************************************************)
(* Cleanup, on a record c of the globals it reads, the vendor state and    *)
(* the log of the release calls it makes.                                  *)
(***************************************************************************)
CleanupDeactivate(c) ==
    IF c.g_metricSet # NULL
    THEN [c EXCEPT !.vendor = [Use(@, DeviceLive(@)) EXCEPT !.setActive = FALSE],
                   !.log = Append(@, "Deactivate")]
    ELSE c

CleanupCloseDevice(c) ==
    IF c.g_metricsDevice # NULL /\ c.g_adapter # NULL
    THEN [c EXCEPT !.vendor = [Use(@, DeviceLive(@)) EXCEPT !.deviceOpen = FALSE],
                   !.g_metricsDevice = NULL,
                   !.log = Append(@, "CloseMetricsDevice")]
    ELSE c

CleanupCloseGroup(c) ==
    IF c.g_adapterGroup # NULL
    THEN [c EXCEPT !.vendor = [Use(@, GroupLive(@)) EXCEPT !.groupOpen = FALSE],
                   !.g_adapterGroup = NULL,
                   !.log = Append(@, "Close")]
    ELSE c

CleanupCloseLibrary(c) ==
    IF c.g_libraryHandle # NULL
    THEN [c EXCEPT !.vendor = [Use(@, LibraryLive(@)) EXCEPT !.libLoaded = FALSE],
                   !.g_libraryHandle = NULL,
                   !.log = Append(@, "dlclose")]
    ELSE c

\* Faulty variant: the library is closed before the adapter group.
CleanupSteps_LibraryFirst(c) ==
    CleanupCloseGroup(CleanupCloseLibrary(CleanupCloseDevice(CleanupDeactivate(c))))

\* Faulty variant: the metrics device is closed before the metric set is deactivated.
CleanupSteps_DeviceFirst(c) ==
    CleanupCloseLibrary(CleanupCloseGroup(CleanupDeactivate(CleanupCloseDevice(c))))

CleanupSteps(c) ==
    CleanupCloseLibrary(CleanupCloseGroup(CleanupCloseDevice(CleanupDeactivate(c))))

(***************************************************************************)
(* Adapters: [valid, vendorId]; valid = FALSE is a NULL adapter or NULL    *)
(* adapter params.                                                         *)
(***************************************************************************)
Adapters ==
    {[valid |-> FALSE, vendorId |-> 0],
     [valid |-> TRUE, vendorId |-> IntelVendorId],
     [valid |-> TRUE, vendorId |-> 4318]}

AdapterLists == SeqsUpTo(Adapters, MaxAdapters)

\* "Find Intel GPU adapter": the handle (index + 1) of the first match, or NULL.
RECURSIVE FindIntelAdapter(_, _)
FindIntelAdapter(adapters, i) ==
    IF i >= Len(adapters) THEN NULL
    ELSE LET adapter == adapters[i + 1]
         IN  IF adapter.valid /\ adapter.vendorId = IntelVendorId THEN i + 1
             ELSE FindIntelAdapter(adapters, i + 1)

(***************************************************************************)
(* Inputs: command lines and descriptor trees.                             *)
(***************************************************************************)
Args == {"-s", "--snapshot", "-h", "--help", "-x"}

NamePool ==
    {name_RenderBusy, name_BlitterBusy, name_VideoBusy, name_render_util,
     name_VIDEO_BUSY, name_GpuTime, name_RenderBasic, name_GpuBusy,
     name_rEnderBusy, name_BLITTERUtil}

SetFull ==
    MetricSet(<<Metric(name_GpuTime), Metric(name_RenderBusy),
                Metric(name_BlitterBusy), Metric(name_VideoBusy)>>)
SetPlain == MetricSet(<<Metric(name_GpuTime), Metric(name_RenderBasic)>>)
SetLower == MetricSet(<<NullMetric, Metric(name_render_util)>>)
SetIdle == MetricSet(<<Metric(name_GpuTime)>>)

\* The trees the whole program is run on.
Devices ==
    {Device(<<Group(<<SetFull>>)>>),
     Device(<<NullGroup, Group(<<SetPlain, SetLower>>)>>),
     Device(<<Group(<<SetPlain, NullSet>>)>>),
     NoDevice}

\* The trees the finder alone is run on: every shape within the bounds over
\* three metric sets, and a one-set tree for every name of the pool.
SetPool == {NullSet, SetIdle, SetLower}
GroupPool == {NullGroup} \cup {Group(ss) : ss \in SeqsUpTo(SetPool, MaxSets)}
FinderDevices ==
    {Device(gs) : gs \in SeqsUpTo(GroupPool, MaxGroups)}
    \cup {Device(<<Group(<<MetricSet(<<Metric(n)>>)>>)>>) : n \in NamePool}
    \cup Devices

\* Raw channel values the normalisation alone is run on, in percent.
RawValues == {0, 5, 10, 20, 25, 70}

VARIABLES
    pc,                    \* main's position
    argv, argi,            \* the arguments after argv[0], and the loop index i - 1
    snapshot_mode,
    handlers,              \* signal_handler is installed
    g_running,
    g_libraryHandle, OpenAdapterGroup_func, g_adapterGroup, g_adapter,
    g_metricsDevice, g_concurrentGroup, g_metricSet,
    vendor,                \* the vendor objects' state
    device,                \* the descriptor tree under the opened device
    acquired,              \* the resources the run has acquired so far
    findRet, findRes,      \* FindGpuUtilizationMetricSet's return value and walk
    call,                  \* what the current ReadGpuUtilization call has done
    readRet,               \* ReadGpuUtilization's return value
    rawUtil, util,         \* the sample before and after normalisation
    line,                  \* the last line printed by DisplayGpuUtilization
    cleanupLog,            \* the release calls made by Cleanup, in order
    cleanupCount,          \* calls of Cleanup
    exitCode, exitPath,    \* main's return value (-1 while running) and exit
    reads, prints,         \* calls of ReadGpuUtilization, DisplayGpuUtilization
    cyclesAfterSignal      \* loop iterations started with g_running = 0

globals ==
    <<g_libraryHandle, OpenAdapterGroup_func, g_adapterGroup, g_adapter,
      g_metricsDevice, g_concurrentGroup, g_metricSet>>
sampling == <<call, readRet, rawUtil, util, line>>
counters == <<reads, prints, cyclesAfterSignal>>
exits == <<cleanupLog, cleanupCount, exitCode, exitPath>>
vars ==
    <<pc, argv, argi, snapshot_mode, handlers, g_running, globals, vendor, device,
      acquired, findRet, findRes, sampling, counters, exits>>

\* A ReadGpuUtilization call: whether it found no metric set, and the result of
\* each vendor call it made ("none": the call was not made).
NoCall ==
    [noSet |-> FALSE, activate |-> "none", timestamps |-> "none",
     setParams |-> "none", deactivate |-> "none"]

NoWalk == [found |-> FALSE, group |-> NULL, set |-> NULL, inspected |-> <<>>]

\* Nothing has run yet.
Unstarted ==
    /\ argi = 1 /\ snapshot_mode = 0 /\ handlers = FALSE /\ g_running = 1
    /\ findRet = 0 /\ findRes = NoWalk
    /\ call = NoCall /\ readRet = 0 /\ util = ZeroUtil /\ line = NoLine
    /\ cleanupLog = <<>> /\ cleanupCount = 0 /\ exitCode = -1 /\ exitPath = "none"
    /\ reads = 0 /\ prints = 0 /\ cyclesAfterSignal = 0

\* The static initialisers of the globals: every handle NULL.
NothingAcquired ==
    /\ g_libraryHandle = NULL /\ OpenAdapterGroup_func = NULL
    /\ g_adapterGroup = NULL /\ g_adapter = NULL /\ g_metricsDevice = NULL
    /\ g_concurrentGroup = NULL /\ g_metricSet = NULL
    /\ vendor = NoVendor /\ device = NoDevice /\ acquired = {}

Init ==
    /\ pc = "parse"
    /\ argv \in SeqsUpTo(Args, MaxArgs)
    /\ Unstarted
    /\ NothingAcquired
    /\ rawUtil = ZeroUtil

(***************************************************************************)
(* main                                                                    *)
(***************************************************************************)
IsSnapshotArg(a) == a = "-s" \/ a = "--snapshot"
IsHelpArg(a) == a = "-h" \/ a = "--help"

\* One iteration of the argument loop, or its end.
ParseArg ==
    /\ pc = "parse"
    /\ IF argi > Len(argv)
       THEN /\ pc' = "signal"
            /\ UNCHANGED <<argi, snapshot_mode, exitCode, exitPath>>
       ELSE IF IsSnapshotArg(argv[argi])
       THEN /\ snapshot_mode' = 1
            /\ argi' = argi + 1
            /\ UNCHANGED <<pc, exitCode, exitPath>>
       ELSE IF IsHelpArg(argv[argi])
       THEN /\ pc' = "done" /\ exitCode' = 0 /\ exitPath' = "help"
            /\ UNCHANGED <<argi, snapshot_mode>>
       ELSE /\ pc' = "done" /\ exitCode' = 1 /\ exitPath' = "unknown"
            /\ UNCHANGED <<argi, snapshot_mode>>
    /\ UNCHANGED <<argv, handlers, g_running, globals, vendor, device, acquired,
                   findRet, findRes, sampling, counters, cleanupLog, cleanupCount>>

\* signal(SIGINT, signal_handler); signal(SIGTERM, signal_handler);
InstallHandlers ==
    /\ pc = "signal"
    /\ handlers' = TRUE
    /\ pc' = "load"
    /\ UNCHANGED <<argv, argi, snapshot_mode, g_running, globals, vendor, device,
                   acquired, findRet, findRes, sampling, counters, exits>>

\* signal_handler, run when SIGINT or SIGTERM is delivered.
signal_handler ==
    /\ handlers
    /\ pc # "done"
    /\ g_running' = 0
    /\ UNCHANGED <<pc, argv, argi, snapshot_mode, handlers, globals, vendor, device,
                   acquired, findRet, findRes, sampling, counters, exits>>

\* Cleanup() on the current state: the globals it resets, the vendor state and
\* the log.
Cleanup ==
    LET c == CleanupSteps([g_metricSet |-> g_metricSet,
                           g_metricsDevice |-> g_metricsDevice,
                           g_adapter |-> g_adapter,
                           g_adapterGroup |-> g_adapterGroup,
                           g_libraryHandle |-> g_libraryHandle,
                           vendor |-> vendor, log |-> cleanupLog])
    IN  /\ g_metricsDevice' = c.g_metricsDevice
        /\ g_adapterGroup' = c.g_adapterGroup
        /\ g_libraryHandle' = c.g_libraryHandle
        /\ vendor' = c.vendor
        /\ cleanupLog' = c.log
        /\ cleanupCount' = Sat(cleanupCount)
        /\ UNCHANGED <<OpenAdapterGroup_func, g_adapter, g_concurrentGroup,
                       g_metricSet>>

\* LoadMetricsDiscoveryLibrary, called first by InitializeAPI.  loads[i] is
\* whether dlopen of library_paths[i] succeeds; symbol whether dlsym does.
LoadMetricsDiscoveryLibrary ==
    /\ pc = "load"
    /\ \E loads \in [1..LibraryPathCount -> BOOLEAN], symbol \in BOOLEAN :
         IF \A i \in 1..LibraryPathCount : ~loads[i]
         THEN /\ pc' = "init_failed"
              /\ UNCHANGED <<g_libraryHandle, OpenAdapterGroup_func, vendor, acquired>>
         ELSE /\ g_libraryHandle' = 1
              /\ vendor' = [vendor EXCEPT !.libLoaded = TRUE]
              /\ acquired' = acquired \cup {"library"}
              /\ IF symbol
                 THEN OpenAdapterGroup_func' = 1 /\ pc' = "open_group"
                 ELSE OpenAdapterGroup_func' = NULL /\ pc' = "init_failed"
    /\ UNCHANGED <<argv, argi, snapshot_mode, handlers, g_running, g_adapterGroup,
                   g_adapter, g_metricsDevice, g_concurrentGroup, g_metricSet,
                   device, findRet, findRes, sampling, counters, exits>>

\* InitializeAPI from "Open adapter group" to "No Intel GPU found".
OpenAdapterGroup ==
    /\ pc = "open_group"
    /\ \E result \in CompletionCodes, groupParams \in BOOLEAN,
          adapters \in AdapterLists :
         IF result # "CC_OK"
         THEN /\ vendor' = Use(vendor, LibraryLive(vendor))
              /\ pc' = "init_failed"
              /\ UNCHANGED <<g_adapterGroup, g_adapter, acquired>>
         ELSE LET opened == [Use(vendor, LibraryLive(vendor)) EXCEPT !.groupOpen = TRUE]
              IN  /\ g_adapterGroup' = 1
                  /\ vendor' = Use(opened, GroupLive(opened))
                  /\ IF ~groupParams
                     THEN /\ pc' = "init_failed"
                          /\ acquired' = acquired \cup {"adapterGroup"}
                          /\ UNCHANGED g_adapter
                     ELSE /\ g_adapter' = FindIntelAdapter(adapters, 0)
                          /\ IF g_adapter' = NULL
                             THEN /\ pc' = "init_failed"
                                  /\ acquired' = acquired \cup {"adapterGroup"}
                             ELSE /\ pc' = "open_device"
                                  /\ acquired' =
                                       acquired \cup {"adapterGroup", "adapter"}
    /\ UNCHANGED <<argv, argi, snapshot_mode, handlers, g_running, g_libraryHandle,
                   OpenAdapterGroup_func, g_metricsDevice, g_concurrentGroup,
                   g_metricSet, device, findRet, findRes, sampling, counters, exits>>

\* InitializeAPI's "Open metrics device"; on success InitializeAPI returns 1.
OpenMetricsDevice ==
    /\ pc = "open_device"
    /\ \E result \in CompletionCodes, dev \in Devices :
         IF result # "CC_OK"
         THEN /\ vendor' = Use(vendor, GroupLive(vendor))
              /\ pc' = "init_failed"
              /\ UNCHANGED <<g_metricsDevice, device, acquired>>
         ELSE /\ g_metricsDevice' = 1
              /\ device' = dev
              /\ vendor' = [Use(vendor, GroupLive(vendor)) EXCEPT !.deviceOpen = TRUE]
              /\ acquired' = acquired \cup {"metricsDevice"}
              /\ pc' = "find"
    /\ UNCHANGED <<argv, argi, snapshot_mode, handlers, g_running, g_libraryHandle,
                   OpenAdapterGroup_func, g_adapterGroup, g_adapter,
                   g_concurrentGroup, g_metricSet, findRet, findRes, sampling,
                   counters, exits>>

\* if (!InitializeAPI()) { ...; Cleanup(); return 1; }
InitFailedExit ==
    /\ pc = "init_failed"
    /\ Cleanup
    /\ exitCode' = 1 /\ exitPath' = "init_failed"
    /\ pc' = "done"
    /\ UNCHANGED <<argv, argi, snapshot_mode, handlers, g_running, device, acquired,
                   findRet, findRes, sampling, counters>>

\* FindGpuUtilizationMetricSet, whole.
FindGpuUtilizationMetricSet ==
    /\ pc = "find"
    /\ LET r == FindWalk(g_metricsDevice, device)
       IN  /\ findRes' = r
           /\ findRet' = IF r.found THEN 1 ELSE 0
           /\ vendor' = IF g_metricsDevice = NULL THEN vendor
                        ELSE Use(vendor, DeviceLive(vendor))
           /\ IF r.found
              THEN /\ g_concurrentGroup' = r.group
                   /\ g_metricSet' = r.set
                   /\ acquired' = acquired \cup {"metricSet"}
              ELSE UNCHANGED <<g_concurrentGroup, g_metricSet, acquired>>
    /\ pc' = "find_ret"
    /\ UNCHANGED <<argv, argi, snapshot_mode, handlers, g_running, g_libraryHandle,
                   OpenAdapterGroup_func, g_adapterGroup, g_adapter, g_metricsDevice,
                   device, sampling, counters, exits>>

\* Faulty variant: the discovery failure returns without Cleanup.
FindFailedExit_NoCleanup ==
    /\ pc = "find_ret" /\ findRet = 0
    /\ exitCode' = 1 /\ exitPath' = "find_failed"
    /\ pc' = "done"
    /\ UNCHANGED <<argv, argi, snapshot_mode, handlers, g_running, globals, vendor,
                   device, acquired, findRet, findRes, sampling, counters,
                   cleanupLog, cleanupCount>>

\* if (!FindGpuUtilizationMetricSet()) { ...; Cleanup(); return 1; }
FindFailedExit ==
    /\ pc = "find_ret" /\ findRet = 0
    /\ Cleanup
    /\ exitCode' = 1 /\ exitPath' = "find_failed"
    /\ pc' = "done"
    /\ UNCHANGED <<argv, argi, snapshot_mode, handlers, g_running, device, acquired,
                   findRet, findRes, sampling, counters>>

\* The mode banner, then the first iteration of the do-while loop.
EnterLoop ==
    /\ pc = "find_ret" /\ findRet # 0
    /\ pc' = "read"
    /\ UNCHANGED <<argv, argi, snapshot_mode, handlers, g_running, globals, vendor,
                   device, acquired, findRet, findRes, sampling, counters, exits>>

\* The metrics of the selected metric set.
SelectedMetrics == device.groups[g_concurrentGroup].sets[g_metricSet].metrics

\* ReadGpuUtilization up to usleep(100000): the metric-set test, memset,
\* Activate and GetGpuCpuTimestamps.
ReadBegin ==
    /\ pc = "read"
    /\ reads' = Sat(reads)
    /\ cyclesAfterSignal' = IF g_running = 0 THEN Sat(cyclesAfterSignal)
                            ELSE cyclesAfterSignal
    /\ IF g_metricSet = NULL
       THEN /\ call' = [NoCall EXCEPT !.noSet = TRUE]
            /\ readRet' = 0
            /\ pc' = "read_ret"
            /\ UNCHANGED <<vendor, util>>
       ELSE \E result \in CompletionCodes, timestamps \in CompletionCodes :
              /\ util' = ZeroUtil
              /\ IF ~ActivateAccepted(result)
                 THEN /\ vendor' = Use(vendor, DeviceLive(vendor))
                      /\ call' = [NoCall EXCEPT !.activate = result]
                      /\ readRet' = 0
                      /\ pc' = "read_ret"
                 ELSE /\ vendor' = [Use(vendor, DeviceLive(vendor))
                                      EXCEPT !.setActive = TRUE]
                      /\ call' = [NoCall EXCEPT !.activate = result,
                                                !.timestamps = timestamps]
                      /\ pc' = "read_wait"
                      /\ UNCHANGED readRet
    /\ UNCHANGED <<argv, argi, snapshot_mode, handlers, g_running, globals, device,
                   acquired, findRet, findRes, rawUtil, line, prints, exits>>

\* ReadGpuUtilization after the wait: GetParams, the metric loop, Deactivate
\* and the normalisation.
ReadFinish ==
    /\ pc = "read_wait"
    /\ \E setParams \in BOOLEAN, result \in CompletionCodes :
         /\ IF ~setParams
            THEN /\ vendor' = Use(vendor, DeviceLive(vendor))
                 /\ call' = [call EXCEPT !.setParams = "null"]
                 /\ readRet' = 0
                 /\ UNCHANGED <<rawUtil, util>>
            ELSE LET raw == ReadMetrics(SelectedMetrics, 1, util)
                 IN  /\ vendor' = [Use(vendor, DeviceLive(vendor))
                                     EXCEPT !.setActive =
                                         IF result = "CC_OK" THEN FALSE ELSE @]
                     /\ call' = [call EXCEPT !.setParams = "ok",
                                             !.deactivate = result]
                     /\ rawUtil' = raw
                     /\ util' = Normalize(raw)
                     /\ readRet' = 1
    /\ pc' = "read_ret"
    /\ UNCHANGED <<argv, argi, snapshot_mode, handlers, g_running, globals, device,
                   acquired, findRet, findRes, line, counters, exits>>

\* Faulty variant: the snapshot break is missing.
DisplayStep_NoSnapshotBreak ==
    /\ pc = "read_ret" /\ readRet # 0
    /\ line' = DisplayGpuUtilization(util)
    /\ prints' = Sat(prints)
    /\ pc' = "sleep"
    /\ UNCHANGED <<argv, argi, snapshot_mode, handlers, g_running, globals, vendor,
                   device, acquired, findRet, findRes, call, readRet, rawUtil, util,
                   reads, cyclesAfterSignal, exits>>

\* if (ReadGpuUtilization(&util)) DisplayGpuUtilization(&util); then
\* if (snapshot_mode) break; otherwise on to sleep(1).
DisplayStep ==
    /\ pc = "read_ret" /\ readRet # 0
    /\ line' = DisplayGpuUtilization(util)
    /\ prints' = Sat(prints)
    /\ pc' = IF snapshot_mode # 0 THEN "loop_exit" ELSE "sleep"
    /\ UNCHANGED <<argv, argi, snapshot_mode, handlers, g_running, globals, vendor,
                   device, acquired, findRet, findRes, call, readRet, rawUtil, util,
                   reads, cyclesAfterSignal, exits>>

\* else { printf("Error reading GPU utilization\n"); break; }
ReadFailedBreak ==
    /\ pc = "read_ret" /\ readRet = 0
    /\ pc' = "loop_exit"
    /\ UNCHANGED <<argv, argi, snapshot_mode, handlers, g_running, globals, vendor,
                   device, acquired, findRet, findRes, sampling, counters, exits>>

\* sleep(1)
Sleep ==
    /\ pc = "sleep"
    /\ pc' = "check"
    /\ UNCHANGED <<argv, argi, snapshot_mode, handlers, g_running, globals, vendor,
                   device, acquired, findRet, findRes, sampling, counters, exits>>

\* Faulty variant: the loop condition does not read the flag.
LoopContinues_IgnoresFlag == TRUE

\* The loop condition.
LoopContinues == g_running # 0

\* } while (g_running);
LoopCheck ==
    /\ pc = "check"
    /\ pc' = IF LoopContinues THEN "read" ELSE "loop_exit"
    /\ UNCHANGED <<argv, argi, snapshot_mode, handlers, g_running, globals, vendor,
                   device, acquired, findRet, findRes, sampling, counters, exits>>

\* Faulty variant: a failed sample makes main return 1.
LoopExit_FailureCode ==
    /\ pc = "loop_exit"
    /\ Cleanup
    /\ exitCode' = (IF readRet = 0 THEN 1 ELSE 0) /\ exitPath' = "loop"
    /\ pc' = "done"
    /\ UNCHANGED <<argv, argi, snapshot_mode, handlers, g_running, device, acquired,
                   findRet, findRes, sampling, counters>>

\* Cleanup(); printf("GPU monitoring completed\n"); return 0;
LoopExit ==
    /\ pc = "loop_exit"
    /\ Cleanup
    /\ exitCode' = 0 /\ exitPath' = "loop"
    /\ pc' = "done"
    /\ UNCHANGED <<argv, argi, snapshot_mode, handlers, g_running, device, acquired,
                   findRet, findRes, sampling, counters>>

\* The steps of main, without the signal.
MainStep ==
    \/ ParseArg
    \/ InstallHandlers
    \/ LoadMetricsDiscoveryLibrary
    \/ OpenAdapterGroup
    \/ OpenMetricsDevice
    \/ InitFailedExit
    \/ FindGpuUtilizationMetricSet
    \/ FindFailedExit
    \/ EnterLoop
    \/ ReadBegin
    \/ ReadFinish
    \/ DisplayStep
    \/ ReadFailedBreak
    \/ Sleep
    \/ LoopCheck
    \/ LoopExit

Next == MainStep \/ signal_handler

Spec == Init /\ [][Next]_vars

\* main is a running process: it takes its next step.
FairSpec == Spec /\ WF_vars(MainStep)

(***************************************************************************)
(* The functions on their own, from every input within the bounds.         *)
(***************************************************************************)
\* The state InitializeAPI leaves on success.
Initialized ==
    /\ g_libraryHandle = 1 /\ OpenAdapterGroup_func = 1
    /\ g_adapterGroup = 1 /\ g_adapter = 1 /\ g_metricsDevice = 1
    /\ vendor = [NoVendor EXCEPT !.libLoaded = TRUE, !.groupOpen = TRUE,
                                 !.deviceOpen = TRUE]

\* lines 343-352 on rawUtil.
NormalizeStep ==
    /\ pc = "normalize"
    /\ util' = Normalize(rawUtil)
    /\ pc' = "normalize_ret"
    /\ UNCHANGED <<argv, argi, snapshot_mode, handlers, g_running, globals, vendor,
                   device, acquired, findRet, findRes, call, readRet, rawUtil, line,
                   counters, exits>>

UnitInit ==
    /\ argv = <<>>
    /\ Unstarted
    /\ \/ /\ pc = "find"
          /\ \/ Initialized /\ acquired = {"library", "adapterGroup", "adapter",
                                           "metricsDevice"}
             \/ NothingAcquired
          /\ g_concurrentGroup = NULL /\ g_metricSet = NULL
          /\ device \in FinderDevices
          /\ rawUtil = ZeroUtil
       \/ /\ pc = "read"
          /\ Initialized
          /\ device \in {d \in Devices : FindWalk(1, d).found}
          /\ \/ /\ g_concurrentGroup = FindWalk(1, device).group
                /\ g_metricSet = FindWalk(1, device).set
                /\ acquired = {"library", "adapterGroup", "adapter", "metricsDevice",
                               "metricSet"}
             \/ /\ g_concurrentGroup = NULL /\ g_metricSet = NULL
                /\ acquired = {"library", "adapterGroup", "adapter", "metricsDevice"}
          /\ rawUtil = ZeroUtil
       \/ /\ pc = "normalize"
          /\ NothingAcquired
          /\ \E r, b, v, e \in RawValues :
               rawUtil = [render |-> Rat(r), blitter |-> Rat(b), video |-> Rat(v),
                          enhance |-> Rat(e), total |-> Rat(0)]

UnitNext ==
    \/ FindGpuUtilizationMetricSet
    \/ ReadBegin
    \/ ReadFinish
    \/ NormalizeStep

UnitSpec == UnitInit /\ [][UnitNext]_vars

(***************************************************************************)
(* Properties.                                                             *)
(***************************************************************************)
\* How main ended, read from the state it ended in.
StoppedAtArg == argi <= Len(argv)
ExitHelp == StoppedAtArg /\ IsHelpArg(argv[argi])
ExitUnknown == StoppedAtArg /\ ~IsHelpArg(argv[argi])
InitFailed == ~StoppedAtArg /\ "metricsDevice" \notin acquired
FindFailed == "metricsDevice" \in acquired /\ "metricSet" \notin acquired
ReachedLoop == "metricSet" \in acquired

\* C1 as stated: on every exit path of main, help and unknown argument
\* included, Cleanup has run exactly once when the process exits.
C1_CleanupOnEveryExit == pc = "done" => cleanupCount = 1

\* C1 amended: Cleanup never runs twice and never before the exit; main exits
\* with Cleanup run exactly once on every path that passed the argument
\* parsing (initialization failure, discovery failure, the end of the loop by
\* snapshot, failed sample or signal), and with no Cleanup on the help and
\* unknown-argument exits.
C1_CleanupOnceAfterParsing ==
    /\ cleanupCount <= 1
    /\ pc # "done" => cleanupCount = 0
    /\ pc = "done" => cleanupCount = IF ExitHelp \/ ExitUnknown THEN 0 ELSE 1

C1_Witness ==
    /\ pc = "done" /\ exitPath = "loop" /\ snapshot_mode = 0 /\ g_running = 0
    /\ readRet = 1 /\ cleanupCount = 1

\* The release steps of Cleanup and the resource each one releases.
ReleaseOrder == <<"Deactivate", "CloseMetricsDevice", "Close", "dlclose">>
Releases(step) ==
    CASE step = "Deactivate" -> "metricSet"
      [] step = "CloseMetricsDevice" -> "metricsDevice"
      [] step = "Close" -> "adapterGroup"
      [] step = "dlclose" -> "library"
WasAcquired(step) == Releases(step) \in acquired

\* C2: whatever prefix of library, adapter group, adapter, metrics device,
\* metric set was acquired, Cleanup makes exactly the release calls of the
\* acquired resources, in the order Deactivate, CloseMetricsDevice, Close,
\* dlclose, and afterwards nothing acquired is still held.
C2_CleanupReleasesInOrder ==
    cleanupCount = 1 =>
        /\ cleanupLog = SelectSeq(ReleaseOrder, WasAcquired)
        /\ ~vendor.setActive /\ ~vendor.deviceOpen
        /\ ~vendor.groupOpen /\ ~vendor.libLoaded

C2_Witness ==
    /\ cleanupCount = 1
    /\ acquired = {"library", "adapterGroup"}
    /\ cleanupLog = <<"Close", "dlclose">>

\* C3: the exit code is 1 exactly when main stopped at an unknown argument,
\* initialization failed or metric-set discovery failed; it is 0 for help
\* and for every run that reached the sampling loop, however the loop ended.
C3_ExitCode ==
    pc = "done" =>
        /\ exitCode = 1 <=> (ExitUnknown \/ InitFailed \/ FindFailed)
        /\ exitCode = 0 <=> (ExitHelp \/ ReachedLoop)
        /\ exitCode \in {0, 1}

C3_Witness ==
    /\ pc = "done" /\ ReachedLoop /\ reads = 1 /\ readRet = 0 /\ exitCode = 0

\* C4 as stated: a snapshot run that got through initialization and
\* discovery has made exactly one sample and one print when it exits.
C4_OneSampleOnePrint ==
    (pc = "done" /\ snapshot_mode = 1 /\ ReachedLoop) => (reads = 1 /\ prints = 1)

\* C4 amended: a snapshot run that got through initialization and discovery
\* calls ReadGpuUtilization exactly once, prints that sample once if the call
\* succeeded and prints nothing if it failed, and then exits, whatever
\* g_running is.
C4_OneSampleAttempt ==
    /\ snapshot_mode = 1 => (reads <= 1 /\ prints <= 1)
    /\ (pc = "done" /\ snapshot_mode = 1 /\ ReachedLoop) =>
           (reads = 1 /\ prints = IF readRet = 1 THEN 1 ELSE 0)

C4_Witness ==
    /\ pc = "done" /\ snapshot_mode = 1 /\ g_running = 0
    /\ reads = 1 /\ prints = 1

C6_DeactivateBeforeReturn ==
    (pc = "read_ret" /\ call.activate # "none" /\ ActivateAccepted(call.activate))
        => call.deactivate # "none"

\* C7 as stated: ReadGpuUtilization returns failure only when no metric set
\* is selected.
C7_FailsOnlyWithoutMetricSet == (pc = "read_ret" /\ readRet = 0) => call.noSet

\* C7 amended: ReadGpuUtilization returns failure exactly when no metric set
\* is selected, when Activate returns a code other than CC_OK and
\* CC_ALREADY_INITIALIZED, or when the metric set's GetParams returns NULL;
\* a failing GetGpuCpuTimestamps or Deactivate is only warned about and the
\* call still returns success with a sample.
C7_FailureCases ==
    pc = "read_ret" =>
        /\ readRet \in {0, 1}
        /\ readRet = 0 <=>
              \/ call.noSet
              \/ call.activate \notin {"none", "CC_OK", "CC_ALREADY_INITIALIZED"}
              \/ call.setParams = "null"
        /\ readRet = 1 =>
              /\ call.timestamps # "none" /\ call.deactivate # "none"
              /\ util = Normalize(rawUtil)

C7_Witness ==
    /\ pc = "read_ret" /\ readRet = 1
    /\ call.activate = "CC_ALREADY_INITIALIZED"
    /\ call.timestamps = "CC_ERROR_GENERAL" /\ call.deactivate = "CC_ERROR_GENERAL"

\* The channels of a sample.
Channels == {"render", "blitter", "video", "enhance"}
RawSum ==
    RatAdd(RatAdd(RatAdd(rawUtil.render, rawUtil.blitter), rawUtil.video),
           rawUtil.enhance)
SampleReturned == pc = "normalize_ret" \/ (pc = "read_ret" /\ readRet = 1)

\* C8: in every returned sample total <= 100; when the raw sum is at most 100
\* the channels are unchanged and total is the raw sum; when it exceeds 100
\* every channel is its raw value times 100/sum and total is exactly 100;
\* raw 70/20/20/0 prints as 63.6/18.2/18.2/0.0 with total 100.0.
C8_TotalAtMost100 ==
    SampleReturned =>
        /\ ~RatGt(util.total, Rat(100))
        /\ IF RatGt(RawSum, Rat(100))
           THEN /\ util.total = Rat(100)
                /\ \A c \in Channels :
                     RatEq(RatMul(util[c], RawSum), RatMul(rawUtil[c], Rat(100)))
           ELSE /\ RatEq(util.total, RawSum)
                /\ \A c \in Channels : util[c] = rawUtil[c]
        /\ (\A c \in Channels : rawUtil[c] =
                Rat(CASE c = "render" -> 70 [] c = "enhance" -> 0 [] OTHER -> 20))
              => DisplayGpuUtilization(util) =
                     [render |-> 636, blitter |-> 182, video |-> 182,
                      enhance |-> 0, total |-> 1000]

C8_Witness ==
    /\ pc = "normalize_ret"
    /\ rawUtil.render = Rat(70) /\ rawUtil.blitter = Rat(20)
    /\ rawUtil.video = Rat(20) /\ rawUtil.enhance = Rat(0)
    /\ util.total = Rat(100)
    /\ DisplayGpuUtilization(util).render = 636

\* The qualifying names and metric sets, stated on the tree.
EngineKeywords ==
    {kw_Render, kw_render, kw_RENDER, kw_Blitter, kw_blitter, kw_BLITTER,
     kw_Video, kw_video, kw_VIDEO}
ActivityKeywords == {kw_Busy, kw_busy, kw_BUSY, kw_Util, kw_util, kw_UTIL}
NameQualifies(name) ==
    /\ \E e \in EngineKeywords : strstr(name, e)
    /\ \E a \in ActivityKeywords : strstr(name, a)
\* The <<group, set>> indices the walk can reach: the sets of the valid groups.
Positions ==
    {p \in (0..(Len(device.groups) - 1)) \X (0..MaxSets) :
        /\ device.groups[p[1] + 1].valid
        /\ p[2] < Len(device.groups[p[1] + 1].sets)}
SetAt(p) == device.groups[p[1] + 1].sets[p[2] + 1]
QualifiesAt(p) ==
    /\ SetAt(p).valid
    /\ \E i \in 1..Len(SetAt(p).metrics) :
         SetAt(p).metrics[i].valid /\ NameQualifies(SetAt(p).metrics[i].name)
Qualifying == {p \in Positions : QualifiesAt(p)}
Before(p, q) == p[1] < q[1] \/ (p[1] = q[1] /\ p[2] < q[2])
First(Q) == CHOOSE p \in Q : \A q \in Q : q = p \/ Before(p, q)
InOrder(seq) == \A i, j \in 1..Len(seq) : i < j => Before(seq[i], seq[j])
Range(seq) == {seq[i] : i \in 1..Len(seq)}

\* C9: FindGpuUtilizationMetricSet walks the groups in index order and the
\* sets in index order within each group, selects the first set with a
\* qualifying metric, inspects no set after it, records that set and its
\* group, and fails with nothing selected exactly when no set qualifies.
C9_FirstQualifyingSet ==
    pc = "find_ret" =>
        LET Q == Qualifying
            first == First(Q)
        IN  /\ InOrder(findRes.inspected)
            /\ IF Q = {}
               THEN /\ findRet = 0
                    /\ g_metricSet = NULL /\ g_concurrentGroup = NULL
                    /\ g_metricsDevice # NULL => Range(findRes.inspected) = Positions
               ELSE /\ findRet = 1
                    /\ g_concurrentGroup = first[1] + 1
                    /\ g_metricSet = first[2] + 1
                    /\ Range(findRes.inspected) =
                         {p \in Positions : p = first \/ Before(p, first)}

C9_Witness ==
    /\ pc = "find_ret" /\ findRet = 1
    /\ g_concurrentGroup = 2 /\ g_metricSet = 1
    /\ Cardinality(Qualifying) >= 2
    /\ Len(findRes.inspected) = 3

\* C10: no call is made on a vendor object outside its lifetime, although
\* Cleanup leaves g_metricSet and g_adapter non-NULL.
C10_NoUseOutsideLifetime ==
    /\ ~vendor.misuse
    /\ pc = "done" => (~vendor.libLoaded /\ ~vendor.groupOpen /\ ~vendor.deviceOpen)

C10_Witness ==
    /\ pc = "done" /\ cleanupCount = 1
    /\ g_metricSet # NULL /\ g_adapter # NULL /\ g_concurrentGroup # NULL
    /\ reads >= 2

====
